---- MODULE Spec2Model ----
(***************************************************************************)
(* State-machine model of shadowsocks/tcprelay.py: the TCPRelay server     *)
(* (fd -> handler map, timeout queue, sweeper, batch dispatcher) and the   *)
(* TCPRelayHandler per-connection state machine (stages, byte pump,        *)
(* pending queues, poller interest, destroy).                              *)
(*                                                                         *)
(* The callbacks are sequential code that call each other (write_to_sock   *)
(* calls destroy and update_stream, destroy calls remove_handler, ...), so *)
(* each function of the source is an operator from a "world" record w (one *)
(* field per variable) to the world after the call.  An action applies the *)
(* operator of a whole handler to the current world and commits the result.*)
(*                                                                         *)
(* None is 0 everywhere.  Sockets are objects (ids 1..MaxSocks) with a     *)
(* descriptor number; the OS hands out the lowest free descriptor, so the  *)
(* number of a closed socket is reused.  Bytes are integers 0..255.  The   *)
(* pending queues are kept as their concatenation (the code only ever      *)
(* reads them through ''.join and never appends an empty chunk).           *)
(***************************************************************************)
EXTENDS Integers, Sequences, FiniteSets, TLC

\* ---------------------------------------------------------------- bounds
\* connections accepted in a run
MaxHandlers == 2
\* payload bytes a peer sends per connection and direction
MaxPayload == 2
\* largest number of bytes a partial send() leaves unsent
MaxPartial == 1
\* seconds the clock advances after the server was constructed
MaxElapsed == 10

\* ------------------------------------------------------ program constants
TIMEOUTS_CLEAN_SIZE == 512
TIMEOUT_PRECISION == 4
CMD_CONNECT == 1
CMD_BIND == 2
CMD_UDP_ASSOCIATE == 3
STAGE_INIT == 0
STAGE_HELLO == 1
STAGE_UDP_ASSOC == 2
STAGE_REPLY == 4
STAGE_STREAM == 5
STREAM_UP == 0
STREAM_DOWN == 1
WAIT_STATUS_INIT == 0
WAIT_STATUS_READING == 1
WAIT_STATUS_WRITING == 2
WAIT_STATUS_READWRITING == 3
\* eventloop's event bits
POLL_IN == 1
POLL_OUT == 4
POLL_ERR == 8
\* config['timeout'], and the clock when the server is constructed
ConfigTimeout == 5
StartTime == 4
\* the key of the stream cipher
CipherKey == 7

None == 0
MaxSocks == 2 * MaxHandlers
Handlers == 1..MaxHandlers
Socks == 1..MaxSocks
FDs == 1..MaxSocks
\* descriptor 0 stands for the listening socket in a batch
ListenFd == 0
MaxTime == StartTime + MaxElapsed
\* the clock is read in whole seconds (int(time.time())); between two polls
\* it moves by one of these amounts
ClockSteps == {4, 5}

\* x & bit # 0, for a single bit
HasBit(x, bit) == (x \div bit) % 2 = 1

IsPrefix(s, t) == Len(s) <= Len(t) /\ SubSeq(t, 1, Len(s)) = s

\* data[n:]
Drop(data, n) == SubSeq(data, n + 1, Len(data))

\* ------------------------------------------------------------ collaborators
\* encrypt.Encryptor: a byte-wise stream cipher
Encrypt(data) == [i \in 1..Len(data) |-> (data[i] + CipherKey) % 256]

Decrypt(data) == [i \in 1..Len(data) |-> (data[i] + 256 - CipherKey) % 256]

\* common.parse_header: the header length, or None when the parser rejects
parse_header(data) ==
    IF Len(data) = 0 THEN None
    ELSE IF data[1] = 1 THEN (IF Len(data) >= 7 THEN 7 ELSE None)
    ELSE IF data[1] = 4 THEN (IF Len(data) >= 19 THEN 19 ELSE None)
    ELSE IF data[1] = 3
         THEN (IF Len(data) > 2 /\ Len(data) >= 4 + data[2]
               THEN 4 + data[2] ELSE None)
    ELSE None

\* recv() raising ETIMEDOUT or EAGAIN; <<>> is end of stream or another error
RecvAgain == <<-1>>

\* the fixed SOCKS5 replies
GreetingReply == <<5, 0>>
ConnectReply == <<5, 0, 0, 1, 0, 0, 0, 0, 16, 16>>
\* header + inet_pton(getsockname addr) + pack('>H', port), IPv4 listener
UdpAssocReply == <<5, 0, 0, 1>> \o <<127, 0, 0, 1>> \o <<4, 56>>

VARIABLES
    \* TCPRelay
    is_local, fd_to_handlers, timeouts, timeout_offset, handler_to_timeouts,
    last_time, closed,
    \* TCPRelayHandler, one value per handler
    stage, local_sock, remote_sock, data_to_write_to_local,
    data_to_write_to_remote, upstream_status, downstream_status,
    last_activity, remote_address,
    \* operating system and poller
    now, nhandlers, sock_fd, sock_closes, poll_reg, batch, phase, listening,
    \* history: what each socket's send() accepted and whether its last send
    \* was incomplete and made in stage STREAM; the streams each handler
    \* produced for the remote and for the local side; payload read so
    \* far; whether destroy() was called; what the sweep of the batch that
    \* ended last found and did
    sock_sent, sock_inc, up_stream, down_stream, up_read, down_read,
    destroyed, last_sweep,
    \* history: whether the handler's connect() raised an error other than
    \* EINPROGRESS; whether its first request had an unknown command or a
    \* header that parse_header rejects
    connect_failed, rejected,
    \* history: whether a handler callback ran since close() was called;
    \* whether an event that carried a closed socket was handed to the handler
    \* that has the event's descriptor now
    served_closed, stale_reused

vars == <<is_local, fd_to_handlers, timeouts, timeout_offset,
          handler_to_timeouts, last_time, stage, local_sock, remote_sock,
          data_to_write_to_local, data_to_write_to_remote, upstream_status,
          downstream_status, last_activity, remote_address, now, nhandlers,
          sock_fd, sock_closes, poll_reg, batch, phase, sock_sent, sock_inc,
          up_stream, down_stream, up_read, down_read, destroyed, last_sweep,
          connect_failed, rejected, closed, listening, served_closed,
          stale_reused>>

\* the current world
World ==
    [is_local |-> is_local, fd_to_handlers |-> fd_to_handlers,
     timeouts |-> timeouts, timeout_offset |-> timeout_offset,
     handler_to_timeouts |-> handler_to_timeouts, last_time |-> last_time,
     stage |-> stage, local_sock |-> local_sock, remote_sock |-> remote_sock,
     data_to_write_to_local |-> data_to_write_to_local,
     data_to_write_to_remote |-> data_to_write_to_remote,
     upstream_status |-> upstream_status,
     downstream_status |-> downstream_status,
     last_activity |-> last_activity, remote_address |-> remote_address,
     now |-> now, nhandlers |-> nhandlers,
     sock_fd |-> sock_fd, sock_closes |-> sock_closes, poll_reg |-> poll_reg,
     batch |-> batch, phase |-> phase, sock_sent |-> sock_sent,
     sock_inc |-> sock_inc, up_stream |-> up_stream,
     down_stream |-> down_stream, up_read |-> up_read,
     down_read |-> down_read, destroyed |-> destroyed,
     last_sweep |-> last_sweep, connect_failed |-> connect_failed,
     rejected |-> rejected, closed |-> closed, listening |-> listening,
     served_closed |-> served_closed, stale_reused |-> stale_reused]

\* the next state is the world w
Commit(w) ==
    /\ is_local' = w.is_local
    /\ fd_to_handlers' = w.fd_to_handlers
    /\ timeouts' = w.timeouts
    /\ timeout_offset' = w.timeout_offset
    /\ handler_to_timeouts' = w.handler_to_timeouts
    /\ last_time' = w.last_time
    /\ stage' = w.stage
    /\ local_sock' = w.local_sock
    /\ remote_sock' = w.remote_sock
    /\ data_to_write_to_local' = w.data_to_write_to_local
    /\ data_to_write_to_remote' = w.data_to_write_to_remote
    /\ upstream_status' = w.upstream_status
    /\ downstream_status' = w.downstream_status
    /\ last_activity' = w.last_activity
    /\ remote_address' = w.remote_address
    /\ now' = w.now
    /\ nhandlers' = w.nhandlers
    /\ sock_fd' = w.sock_fd
    /\ sock_closes' = w.sock_closes
    /\ poll_reg' = w.poll_reg
    /\ batch' = w.batch
    /\ phase' = w.phase
    /\ sock_sent' = w.sock_sent
    /\ sock_inc' = w.sock_inc
    /\ up_stream' = w.up_stream
    /\ down_stream' = w.down_stream
    /\ up_read' = w.up_read
    /\ down_read' = w.down_read
    /\ destroyed' = w.destroyed
    /\ last_sweep' = w.last_sweep
    /\ connect_failed' = w.connect_failed
    /\ rejected' = w.rejected
    /\ closed' = w.closed
    /\ listening' = w.listening
    /\ served_closed' = w.served_closed
    /\ stale_reused' = w.stale_reused

\* ------------------------------------------------------ sockets and poller
NoReg == [sock |-> None, mask |-> 0]

\* A handler creates at most two socket objects: the one accept() returned
\* for it and the one it connects upstream
LocalSockOf(h) == 2 * h - 1

RemoteSockOf(h) == 2 * h

sock_owner(s) == (s + 1) \div 2

\* socket.socket() / accept(): the new socket gets the lowest free descriptor
FreeFd(w) ==
    LET used == {w.sock_fd[s] :
                    s \in {t \in Socks : w.sock_fd[t] # None
                                          /\ w.sock_closes[t] = 0}}
    IN CHOOSE fd \in FDs \ used : \A g \in FDs \ used : fd <= g

new_socket(w, s) == [w EXCEPT !.sock_fd[s] = FreeFd(w)]

\* sock.close()
sock_close(w, s) == [w EXCEPT !.sock_closes[s] = @ + 1]

\* eventloop.add / modify / remove: keyed by the socket's descriptor
loop_add(w, s, mode) ==
    [w EXCEPT !.poll_reg[w.sock_fd[s]] = [sock |-> s, mask |-> mode]]

loop_modify(w, s, mode) ==
    [w EXCEPT !.poll_reg[w.sock_fd[s]] = [sock |-> s, mask |-> mode]]

loop_remove(w, s) == [w EXCEPT !.poll_reg[w.sock_fd[s]] = NoReg]

NoSweep == [ran |-> FALSE, expired |-> {}, fresh |-> {}, reaped |-> {}]

\* ----------------------------------------------------- TCPRelay: timeouts
\* handler_to_timeouts maps a handler to <<index>>, or to <<>> when it has
\* no key; indices are the code's, counted from 0
h2t_get(w, h) ==
    IF w.handler_to_timeouts[h] = <<>> THEN -1 ELSE w.handler_to_timeouts[h][1]

\* remove_handler with a fault: the slot is tombstoned but the key is kept
remove_handler_keeps_key(w, h) ==
    LET index == h2t_get(w, h)
    IN IF index >= 0
       THEN [w EXCEPT !.timeouts[index + 1] = None]
       ELSE w

\* TCPRelay.remove_handler
remove_handler(w, h) ==
    LET index == h2t_get(w, h)
    IN IF index >= 0
       THEN [w EXCEPT !.timeouts[index + 1] = None,
                      !.handler_to_timeouts[h] = <<>>]
       ELSE w

\* update_activity with a fault: a handler that has a slot keeps it instead
\* of moving to the end of the queue
update_activity_in_place(w, h) ==
    IF w.now - w.last_activity[h] < TIMEOUT_PRECISION
    THEN w
    ELSE LET index == h2t_get(w, h)
             w1 == [w EXCEPT !.last_activity[h] = w.now]
         IN IF index >= 0
            THEN w1
            ELSE [w1 EXCEPT !.timeouts = Append(@, h),
                            !.handler_to_timeouts[h] = <<Len(w1.timeouts)>>]

\* TCPRelay.update_activity
update_activity(w, h) ==
    IF w.now - w.last_activity[h] < TIMEOUT_PRECISION
    THEN w
    ELSE LET index == h2t_get(w, h)
             w1 == [w EXCEPT !.last_activity[h] = w.now]
             w2 == IF index >= 0
                   THEN [w1 EXCEPT !.timeouts[index + 1] = None]
                   ELSE w1
             length == Len(w2.timeouts)
         IN [w2 EXCEPT !.timeouts = Append(@, h),
                       !.handler_to_timeouts[h] = <<length>>]

\* ------------------------------------------------------- TCPRelayHandler
\* destroy's block for remote_sock, with a fault: the socket's descriptor
\* stays in the fd map
close_remote_keeps_fd(w, h) ==
    IF w.remote_sock[h] # None
    THEN [sock_close(loop_remove(w, w.remote_sock[h]), w.remote_sock[h])
             EXCEPT !.remote_sock[h] = None]
    ELSE w

\* destroy: the block for remote_sock
close_remote(w, h) ==
    IF w.remote_sock[h] # None
    THEN [sock_close(loop_remove(w, w.remote_sock[h]), w.remote_sock[h])
             EXCEPT !.fd_to_handlers[w.sock_fd[w.remote_sock[h]]] = None,
                    !.remote_sock[h] = None]
    ELSE w

\* destroy: the block for local_sock
close_local(w, h) ==
    IF w.local_sock[h] # None
    THEN [sock_close(loop_remove(w, w.local_sock[h]), w.local_sock[h])
             EXCEPT !.fd_to_handlers[w.sock_fd[w.local_sock[h]]] = None,
                    !.local_sock[h] = None]
    ELSE w

\* TCPRelayHandler.destroy
destroy(w, h) ==
    remove_handler([close_local(close_remote(w, h), h)
                       EXCEPT !.destroyed[h] = TRUE], h)

\* update_stream's "if dirty" block with a fault: local_sock's POLL_IN
\* follows the downstream status instead of the upstream status
update_interest_crossed(w, h) ==
    LET levent == POLL_ERR
                  + (IF HasBit(w.downstream_status[h], WAIT_STATUS_WRITING)
                     THEN POLL_OUT ELSE 0)
                  + (IF HasBit(w.downstream_status[h], WAIT_STATUS_READING)
                     THEN POLL_IN ELSE 0)
        revent == POLL_ERR
                  + (IF HasBit(w.downstream_status[h], WAIT_STATUS_READING)
                     THEN POLL_IN ELSE 0)
                  + (IF HasBit(w.upstream_status[h], WAIT_STATUS_WRITING)
                     THEN POLL_OUT ELSE 0)
        w2 == IF w.local_sock[h] # None
              THEN loop_modify(w, w.local_sock[h], levent) ELSE w
    IN IF w.remote_sock[h] # None
       THEN loop_modify(w2, w.remote_sock[h], revent) ELSE w2

\* update_stream: the "if dirty" block, the interest of both sockets
update_interest(w, h) ==
    LET levent == POLL_ERR
                  + (IF HasBit(w.downstream_status[h], WAIT_STATUS_WRITING)
                     THEN POLL_OUT ELSE 0)
                  + (IF HasBit(w.upstream_status[h], WAIT_STATUS_READING)
                     THEN POLL_IN ELSE 0)
        revent == POLL_ERR
                  + (IF HasBit(w.downstream_status[h], WAIT_STATUS_READING)
                     THEN POLL_IN ELSE 0)
                  + (IF HasBit(w.upstream_status[h], WAIT_STATUS_WRITING)
                     THEN POLL_OUT ELSE 0)
        w2 == IF w.local_sock[h] # None
              THEN loop_modify(w, w.local_sock[h], levent) ELSE w
    IN IF w.remote_sock[h] # None
       THEN loop_modify(w2, w.remote_sock[h], revent) ELSE w2

\* update_stream with a fault: the status is stored, the poller is not told
update_stream_status_only(w, h, stream, status) ==
    IF stream = STREAM_DOWN
    THEN [w EXCEPT !.downstream_status[h] = status]
    ELSE [w EXCEPT !.upstream_status[h] = status]

\* TCPRelayHandler.update_stream
update_stream(w, h, stream, status) ==
    IF stream = STREAM_DOWN
    THEN IF w.downstream_status[h] # status
         THEN update_interest([w EXCEPT !.downstream_status[h] = status], h)
         ELSE w
    ELSE IF w.upstream_status[h] # status
         THEN update_interest([w EXCEPT !.upstream_status[h] = status], h)
         ELSE w

\* outcomes of sock.send(data): an error other than EAGAIN/EINPROGRESS,
\* EAGAIN/EINPROGRESS, or a count of accepted bytes, given by the number
\* j >= 0 of bytes of data that send() leaves unsent
SEND_ERROR == -1
SEND_AGAIN == -2
SendOutcomes == {SEND_ERROR, SEND_AGAIN} \cup 0..MaxPartial

\* sock.send(data) accepts the bytes part; uncomplete as write_to_sock sets it
sock_send(w, h, sock, part, uncomplete) ==
    [w EXCEPT !.sock_sent[sock] = @ \o part,
              !.sock_inc[sock] = uncomplete /\ w.stage[h] = STAGE_STREAM]

\* write_to_sock after the try block: data is what send() left
write_to_sock_end(w, h, data, sock, uncomplete) ==
    IF uncomplete
    THEN IF sock = w.local_sock[h]
         THEN update_stream([w EXCEPT !.data_to_write_to_local[h] = @ \o data],
                            h, STREAM_DOWN, WAIT_STATUS_WRITING)
         ELSE IF sock = w.remote_sock[h]
         THEN update_stream([w EXCEPT !.data_to_write_to_remote[h] = @ \o data],
                            h, STREAM_UP, WAIT_STATUS_WRITING)
         ELSE w
    ELSE IF sock = w.local_sock[h]
         THEN update_stream(w, h, STREAM_DOWN, WAIT_STATUS_READING)
         ELSE IF sock = w.remote_sock[h]
         THEN update_stream(w, h, STREAM_UP, WAIT_STATUS_READING)
         ELSE w

\* write_to_sock with a fault: after a partial send all of data is queued
write_to_sock_requeues_all(w, h, data, sock, o) ==
    IF data = <<>> \/ sock = None
    THEN w
    ELSE LET l == Len(data)
             s == IF o = SEND_AGAIN \/ o > l THEN 0 ELSE l - o
         IN IF o = SEND_ERROR
            THEN write_to_sock_end(destroy(w, h), h, data, sock, FALSE)
            ELSE write_to_sock_end(
                     sock_send(w, h, sock, SubSeq(data, 1, s), s < l),
                     h, data, sock, s < l)

\* TCPRelayHandler.write_to_sock; o is the outcome of send()
write_to_sock(w, h, data, sock, o) ==
    IF data = <<>> \/ sock = None
    THEN w
    ELSE LET l == Len(data)
             s == IF o = SEND_AGAIN \/ o > l THEN 0 ELSE l - o
         IN IF o = SEND_ERROR
            THEN write_to_sock_end(destroy(w, h), h, data, sock, FALSE)
            ELSE write_to_sock_end(
                     sock_send(w, h, sock, SubSeq(data, 1, s), s < l),
                     h, Drop(data, s), sock, s < l)

\* on_local_read from socket.socket() on: the upstream socket is created,
\* mapped, connected and polled.  conn is whether connect() raised an error
\* other than EINPROGRESS: the except clause catches it and does nothing, so
\* it only goes into the history
connect_remote(w, h, s, conn) ==
    update_stream(
        update_stream(
            [loop_add([new_socket(w, s) EXCEPT
                          !.remote_sock[h] = s,
                          !.fd_to_handlers[FreeFd(w)] = h,
                          !.connect_failed[h] = conn],
                      s, POLL_ERR + POLL_OUT)
                EXCEPT !.stage[h] = STAGE_REPLY],
            h, STREAM_UP, WAIT_STATUS_READWRITING),
        h, STREAM_DOWN, WAIT_STATUS_READING)

\* on_local_read, getaddrinfo: gai is whether it found an address
resolve_remote(w, h, gai, conn) ==
    IF gai THEN connect_remote(w, h, RemoteSockOf(h), conn)
    ELSE destroy(w, h)

\* on_local_read once the header is parsed: the local role replies to the
\* client and queues the encrypted request, the remote role queues what
\* follows the header
forward_address(w, h, data, o, header_length) ==
    IF w.is_local
    THEN [write_to_sock([w EXCEPT !.remote_address[h] = TRUE,
                                  !.down_stream[h] = @ \o ConnectReply],
                        h, ConnectReply, w.local_sock[h], o)
             EXCEPT !.data_to_write_to_remote[h] = @ \o Encrypt(data),
                    !.up_stream[h] = @ \o Encrypt(data)]
    ELSE IF Len(data) > header_length
    THEN [w EXCEPT !.remote_address[h] = TRUE,
                   !.data_to_write_to_remote[h] =
                       @ \o Drop(data, header_length),
                   !.up_stream[h] = @ \o Drop(data, header_length)]
    ELSE [w EXCEPT !.remote_address[h] = TRUE]

\* the upstream connect of on_local_read, with a fault: the request is
\* answered and queued before the header is looked at
connect_upstream_forward_first(w, h, data, o, gai, conn) ==
    IF parse_header(data) = None
    THEN destroy([forward_address(w, h, data, o, 0)
                     EXCEPT !.rejected[h] = TRUE], h)
    ELSE resolve_remote(forward_address(w, h, data, o, parse_header(data)),
                        h, gai, conn)

\* the upstream connect of on_local_read, from parse_header on; data is the
\* address header and what follows it
connect_upstream(w, h, data, o, gai, conn) ==
    IF parse_header(data) = None
    THEN destroy([w EXCEPT !.rejected[h] = TRUE], h)
    ELSE resolve_remote(forward_address(w, h, data, o, parse_header(data)),
                        h, gai, conn)

\* the HELLO / remote-INIT branch of on_local_read
handshake(w, h, data, o, gai, conn) ==
    IF w.is_local
    THEN IF Len(data) < 2
         THEN destroy(w, h)
         ELSE IF data[2] = CMD_UDP_ASSOCIATE
         THEN [write_to_sock([w EXCEPT !.down_stream[h] = @ \o UdpAssocReply],
                             h, UdpAssocReply, w.local_sock[h], o)
                  EXCEPT !.stage[h] = STAGE_UDP_ASSOC]
         ELSE IF data[2] = CMD_CONNECT
         THEN connect_upstream(w, h, Drop(data, 3), o, gai, conn)
         ELSE destroy([w EXCEPT !.rejected[h] = TRUE], h)
    ELSE connect_upstream(w, h, data, o, gai, conn)

\* on_local_read's dispatch on the stage, with a fault: the greeting branch
\* is taken in both roles
on_local_data_any_role(w, h, data, o, gai, conn) ==
    IF w.stage[h] = STAGE_STREAM
    THEN write_to_sock(
             [w EXCEPT !.up_stream[h] =
                           @ \o (IF w.is_local THEN Encrypt(data) ELSE data)],
             h, IF w.is_local THEN Encrypt(data) ELSE data,
             w.remote_sock[h], o)
    ELSE IF w.stage[h] = STAGE_INIT
    THEN [write_to_sock([w EXCEPT !.down_stream[h] = @ \o GreetingReply],
                        h, GreetingReply, w.local_sock[h], o)
             EXCEPT !.stage[h] = STAGE_HELLO]
    ELSE IF w.stage[h] = STAGE_REPLY
    THEN [w EXCEPT
             !.data_to_write_to_remote[h] =
                 @ \o (IF w.is_local THEN Encrypt(data) ELSE data),
             !.up_stream[h] =
                 @ \o (IF w.is_local THEN Encrypt(data) ELSE data)]
    ELSE IF \/ w.is_local /\ w.stage[h] = STAGE_HELLO
            \/ ~w.is_local /\ w.stage[h] = STAGE_INIT
    THEN handshake(w, h, data, o, gai, conn)
    ELSE w

\* on_local_read: the dispatch on the stage; data is what was read, decrypted
\* in the remote role
on_local_data(w, h, data, o, gai, conn) ==
    IF w.stage[h] = STAGE_STREAM
    THEN write_to_sock(
             [w EXCEPT !.up_stream[h] =
                           @ \o (IF w.is_local THEN Encrypt(data) ELSE data)],
             h, IF w.is_local THEN Encrypt(data) ELSE data,
             w.remote_sock[h], o)
    ELSE IF w.is_local /\ w.stage[h] = STAGE_INIT
    THEN [write_to_sock([w EXCEPT !.down_stream[h] = @ \o GreetingReply],
                        h, GreetingReply, w.local_sock[h], o)
             EXCEPT !.stage[h] = STAGE_HELLO]
    ELSE IF w.stage[h] = STAGE_REPLY
    THEN [w EXCEPT
             !.data_to_write_to_remote[h] =
                 @ \o (IF w.is_local THEN Encrypt(data) ELSE data),
             !.up_stream[h] =
                 @ \o (IF w.is_local THEN Encrypt(data) ELSE data)]
    ELSE IF \/ w.is_local /\ w.stage[h] = STAGE_HELLO
            \/ ~w.is_local /\ w.stage[h] = STAGE_INIT
    THEN handshake(w, h, data, o, gai, conn)
    ELSE w

\* on_local_read after update_activity: recv() and decrypt
on_local_recv(w, h, rd, o, gai, conn) ==
    IF w.local_sock[h] = None THEN w
    ELSE IF rd = RecvAgain THEN w
    ELSE IF rd = <<>> THEN destroy(w, h)
    ELSE IF ~w.is_local /\ Decrypt(rd) = <<>> THEN w
    ELSE on_local_data(w, h, IF w.is_local THEN rd ELSE Decrypt(rd),
                       o, gai, conn)

\* TCPRelayHandler.on_local_read; rd is what recv() returns
on_local_read(w, h, rd, o, gai, conn) ==
    on_local_recv(update_activity(w, h), h, rd, o, gai, conn)

\* on_remote_read after update_activity
on_remote_recv(w, h, rd, o) ==
    IF rd = RecvAgain THEN w
    ELSE IF rd = <<>> THEN destroy(w, h)
    ELSE write_to_sock(
             [w EXCEPT !.down_stream[h] =
                           @ \o (IF w.is_local THEN Decrypt(rd)
                                 ELSE Encrypt(rd))],
             h, IF w.is_local THEN Decrypt(rd) ELSE Encrypt(rd),
             w.local_sock[h], o)

\* TCPRelayHandler.on_remote_read
on_remote_read(w, h, rd, o) ==
    on_remote_recv(update_activity(w, h), h, rd, o)

\* TCPRelayHandler.on_local_write
on_local_write(w, h, o) ==
    IF w.data_to_write_to_local[h] # <<>>
    THEN write_to_sock([w EXCEPT !.data_to_write_to_local[h] = <<>>], h,
                       w.data_to_write_to_local[h], w.local_sock[h], o)
    ELSE update_stream(w, h, STREAM_DOWN, WAIT_STATUS_READING)

\* on_remote_write with a fault: the queue is sent and not emptied
on_remote_write_keeps_queue(w, h, o) ==
    IF w.data_to_write_to_remote[h] # <<>>
    THEN write_to_sock([w EXCEPT !.stage[h] = STAGE_STREAM], h,
                       w.data_to_write_to_remote[h], w.remote_sock[h], o)
    ELSE update_stream([w EXCEPT !.stage[h] = STAGE_STREAM],
                       h, STREAM_UP, WAIT_STATUS_READING)

\* TCPRelayHandler.on_remote_write
on_remote_write(w, h, o) ==
    IF w.data_to_write_to_remote[h] # <<>>
    THEN write_to_sock([w EXCEPT !.stage[h] = STAGE_STREAM,
                                 !.data_to_write_to_remote[h] = <<>>], h,
                       w.data_to_write_to_remote[h], w.remote_sock[h], o)
    ELSE update_stream([w EXCEPT !.stage[h] = STAGE_STREAM],
                       h, STREAM_UP, WAIT_STATUS_READING)

\* eventloop.get_sock_error only reads SO_ERROR for the log
on_local_error(w, h) == destroy(w, h)

on_remote_error(w, h) == destroy(w, h)

\* handle_event, the three tests of the event's bits for remote_sock.  e holds
\* what the system calls made by the callbacks return: rd (recv), o1 (send of
\* the read callback), o2 (send of the write callback), gai (getaddrinfo),
\* conn (connect() raises an error other than EINPROGRESS),
\* n (payload bytes in rd)
remote_in(w, h, event, e) ==
    IF HasBit(event, POLL_IN)
    THEN on_remote_read([w EXCEPT !.down_read[h] = @ + e.n], h, e.rd, e.o1)
    ELSE w

remote_out(w, h, event, e) ==
    IF HasBit(event, POLL_OUT) THEN on_remote_write(w, h, e.o2) ELSE w

remote_err(w, h, event) ==
    IF HasBit(event, POLL_ERR) THEN on_remote_error(w, h) ELSE w

\* handle_event, the three tests of the event's bits for local_sock
local_in(w, h, event, e) ==
    IF HasBit(event, POLL_IN)
    THEN on_local_read([w EXCEPT !.up_read[h] = @ + e.n],
                       h, e.rd, e.o1, e.gai, e.conn)
    ELSE w

local_out(w, h, event, e) ==
    IF HasBit(event, POLL_OUT) THEN on_local_write(w, h, e.o2) ELSE w

local_err(w, h, event) ==
    IF HasBit(event, POLL_ERR) THEN on_local_error(w, h) ELSE w

\* handle_event with a fault: a socket that is not remote_sock is taken for
\* local_sock
handle_event_any_socket(w, h, sock, event, e) ==
    IF sock = w.remote_sock[h]
    THEN remote_err(remote_out(remote_in(w, h, event, e), h, event, e),
                    h, event)
    ELSE local_err(local_out(local_in(w, h, event, e), h, event, e),
                   h, event)

\* TCPRelayHandler.handle_event
handle_event(w, h, sock, event, e) ==
    IF sock = w.remote_sock[h]
    THEN remote_err(remote_out(remote_in(w, h, event, e), h, event, e),
                    h, event)
    ELSE IF sock = w.local_sock[h]
    THEN local_err(local_out(local_in(w, h, event, e), h, event, e),
                   h, event)
    ELSE w

\* TCPRelayHandler.__init__ for handler h and the socket s accept() returned
handler_fields(w, h, s) ==
    [w EXCEPT !.nhandlers = h,
              !.sock_fd[s] = FreeFd(w),
              !.local_sock[h] = s, !.remote_sock[h] = None,
              !.stage[h] = STAGE_INIT,
              !.data_to_write_to_local[h] = <<>>,
              !.data_to_write_to_remote[h] = <<>>,
              !.upstream_status[h] = WAIT_STATUS_READING,
              !.downstream_status[h] = WAIT_STATUS_INIT,
              !.remote_address[h] = FALSE,
              !.fd_to_handlers[FreeFd(w)] = h,
              !.last_activity[h] = 0]

\* TCPRelayHandler.__init__ with a fault: update_activity is not called
handler_init_untracked(w) ==
    loop_add(handler_fields(w, w.nhandlers + 1,
                            LocalSockOf(w.nhandlers + 1)),
             LocalSockOf(w.nhandlers + 1), POLL_IN + POLL_ERR)

\* accept() and TCPRelayHandler.__init__: the next handler, on a new socket
handler_init(w) ==
    update_activity(
        loop_add(handler_fields(w, w.nhandlers + 1,
                                LocalSockOf(w.nhandlers + 1)),
                 LocalSockOf(w.nhandlers + 1), POLL_IN + POLL_ERR),
        w.nhandlers + 1)

\* ------------------------------------------------------ TCPRelay: sweeper
\* the first position from pos on that holds a handler, or length
next_live(w, pos, length) ==
    LET live == {q \in pos..(length - 1) : w.timeouts[q + 1] # None}
    IN IF live # {}
       THEN CHOOSE q \in live : \A r \in live : q <= r
       ELSE IF pos < length THEN length ELSE pos

\* the loop's branch for a handler that timed out
reap(w, p) ==
    [destroy(w, w.timeouts[p + 1]) EXCEPT
        !.timeouts[p + 1] = None,
        !.last_sweep.reaped = @ \cup {w.timeouts[p + 1]}]

RECURSIVE sweep_loop(_, _, _)
\* one iteration on a handler, with a fault: a handler idle for exactly
\* timeout is kept
sweep_at_lenient(w, p, length) ==
    IF p >= length THEN [w |-> w, pos |-> p]
    ELSE IF w.now - w.last_activity[w.timeouts[p + 1]] <= ConfigTimeout
    THEN [w |-> w, pos |-> p]
    ELSE sweep_loop(reap(w, p), p + 1, length)

\* one iteration of the while loop on position p, which holds a handler or
\* is where the loop ends
sweep_at(w, p, length) ==
    IF p >= length THEN [w |-> w, pos |-> p]
    ELSE IF w.now - w.last_activity[w.timeouts[p + 1]] < ConfigTimeout
    THEN [w |-> w, pos |-> p]
    ELSE sweep_loop(reap(w, p), p + 1, length)

\* the while loop of _sweep_timeout from pos on: the world and pos when it
\* ends.  The iterations over a run of tombstones only count pos up, so they
\* are taken in one step (next_live)
sweep_loop(w, pos, length) == sweep_at(w, next_live(w, pos, length), length)

\* the clean-up with a fault: the prefix is dropped but the stored indices
\* are left as they were
compact_keeps_index(r, length) ==
    IF r.pos > TIMEOUTS_CLEAN_SIZE /\ r.pos > length \div 2
    THEN [r.w EXCEPT !.timeouts = Drop(@, r.pos),
                     !.timeout_offset = 0]
    ELSE [r.w EXCEPT !.timeout_offset = r.pos]

\* the clean-up at the end of _sweep_timeout; r is the loop's outcome
compact(r, length) ==
    IF r.pos > TIMEOUTS_CLEAN_SIZE /\ r.pos > length \div 2
    THEN [r.w EXCEPT !.timeouts = Drop(@, r.pos),
                     !.handler_to_timeouts =
                         [k \in Handlers |->
                             IF @[k] = <<>> THEN <<>>
                             ELSE <<@[k][1] - r.pos>>],
                     !.timeout_offset = 0]
    ELSE [r.w EXCEPT !.timeout_offset = r.pos]

\* TCPRelay._sweep_timeout
sweep_timeout(w) ==
    IF w.timeouts # <<>>
    THEN compact(sweep_loop(w, w.timeout_offset, Len(w.timeouts)),
                 Len(w.timeouts))
    ELSE w

\* what a sweep that starts in world w is to do: the handlers with an entry
\* in timeouts, split by now - last_activity >= timeout
sweep_record(w) ==
    LET entered == {w.timeouts[i] : i \in 1..Len(w.timeouts)} \ {None}
        old == {h \in entered : w.now - w.last_activity[h] >= ConfigTimeout}
    IN [ran |-> TRUE, expired |-> old, fresh |-> entered \ old, reaped |-> {}]

\* the end of TCPRelay._handle_events, after the loop over the batch
handle_events_end(w) ==
    IF w.now - w.last_time > TIMEOUT_PRECISION
    THEN [sweep_timeout([w EXCEPT !.last_sweep = sweep_record(w)])
             EXCEPT !.last_time = w.now]
    ELSE [w EXCEPT !.last_sweep = NoSweep]

\* TCPRelay.close, with a fault: the fd map is emptied as well
close_forgets_handlers(w) ==
    [w EXCEPT !.closed = TRUE, !.listening = FALSE,
              !.fd_to_handlers = [fd \in FDs |-> None]]

\* TCPRelay.close: the flag, and close() of the listening socket
close(w) == [w EXCEPT !.closed = TRUE, !.listening = FALSE]

\* A handler that destroy() took out of fd_to_handlers and timeouts is
\* referenced by nothing once the callback returns, and Python frees it: its
\* fields stop being state (they take __init__'s values here), and so do the
\* byte histories of the connection.  Its stage is kept, as the record of how
\* far the connection got, and so are its sockets' descriptors and close
\* counts.
unreferenced(w, h) ==
    /\ w.destroyed[h]
    /\ \A fd \in FDs : w.fd_to_handlers[fd] # h
    /\ \A i \in 1..Len(w.timeouts) : w.timeouts[i] # h

free(w) ==
    LET gone == {h \in Handlers : unreferenced(w, h)}
        keep(f, init) == [h \in Handlers |-> IF h \in gone THEN init ELSE f[h]]
        keeps(f, init) ==
            [s \in Socks |-> IF sock_owner(s) \in gone THEN init ELSE f[s]]
    IN [w EXCEPT
           !.sock_sent = keeps(@, <<>>),
           !.sock_inc = keeps(@, FALSE),
           !.up_stream = keep(@, <<>>),
           !.down_stream = keep(@, <<>>),
           !.up_read = keep(@, 0),
           !.down_read = keep(@, 0),
           !.data_to_write_to_local = keep(@, <<>>),
           !.data_to_write_to_remote = keep(@, <<>>),
           !.upstream_status = keep(@, WAIT_STATUS_READING),
           !.downstream_status = keep(@, WAIT_STATUS_INIT),
           !.last_activity = keep(@, 0),
           !.remote_address = keep(@, FALSE),
           !.connect_failed = keep(@, FALSE)]

\* ------------------------------------------------------------ environment
\* the k-th payload byte a client sends upstream / a server sends downstream
UpByte(k) == 100 + k

DownByte(k) == 200 + k

UpChunk(from, n) == [i \in 1..n |-> UpByte(from + i)]

DownChunk(from, n) == [i \in 1..n |-> DownByte(from + i)]

\* SOCKS5 greeting and requests of a client of the local role
Greeting == <<5, 1, 0>>
HeaderV4 == <<1, 127, 0, 0, 1, 0, 80>>
HeaderBad == <<2, 0, 80>>
Requests ==
    {<<5, CMD_CONNECT, 0>> \o HeaderV4, <<5, CMD_CONNECT, 0>> \o HeaderBad,
     <<5, CMD_UDP_ASSOCIATE, 0>> \o <<1, 0, 0, 0, 0, 0, 0>>,
     <<5, CMD_BIND, 0>> \o HeaderV4, <<5>>}

NoData == {[rd |-> RecvAgain, n |-> 0], [rd |-> <<>>, n |-> 0]}

\* what recv() on local_sock can return to handler h
LocalRecv(h, pay) ==
    LET left == pay - up_read[h]
        chunks == {[rd |-> UpChunk(up_read[h], n), n |-> n] : n \in 1..left}
        cipher == {[rd |-> Encrypt(c.rd), n |-> c.n] : c \in chunks}
    IN NoData \cup
       IF is_local
       THEN IF stage[h] = STAGE_INIT THEN {[rd |-> Greeting, n |-> 0]}
            ELSE IF stage[h] = STAGE_HELLO
            THEN {[rd |-> r, n |-> 0] : r \in Requests}
            ELSE IF stage[h] = STAGE_UDP_ASSOC THEN {[rd |-> <<0>>, n |-> 0]}
            ELSE chunks
       ELSE IF stage[h] = STAGE_INIT
            THEN {[rd |-> Encrypt(HeaderBad), n |-> 0],
                  [rd |-> Encrypt(HeaderV4), n |-> 0]}
                 \cup {[rd |-> Encrypt(HeaderV4 \o c.rd), n |-> c.n] :
                          c \in chunks}
            ELSE cipher

\* what recv() on remote_sock can return to handler h
RemoteRecv(h, pay) ==
    LET left == pay - down_read[h]
        chunks == {[rd |-> DownChunk(down_read[h], n), n |-> n] :
                      n \in 1..left}
    IN NoData \cup
       IF is_local THEN {[rd |-> Encrypt(c.rd), n |-> c.n] : c \in chunks}
       ELSE chunks

\* the event masks the poller can report for a registered interest:
\* IN and OUT only when asked for, ERR always
Events(mask) ==
    {e \in {1, 4, 5, 8, 9, 12, 13} :
        /\ HasBit(e, POLL_IN) => HasBit(mask, POLL_IN)
        /\ HasBit(e, POLL_OUT) => HasBit(mask, POLL_OUT)}

\* what the system calls of handle_event(sock, event) on h can return, when
\* send() has the outcomes sends, a peer sends at most pay payload bytes and
\* connect() has the outcomes conns
Env(h, sock, event, sends, pay, conns) ==
    LET known == sock = local_sock[h] \/ sock = remote_sock[h]
        reads == known /\ HasBit(event, POLL_IN)
        rds == IF ~reads THEN {[rd |-> RecvAgain, n |-> 0]}
               ELSE IF sock = local_sock[h] THEN LocalRecv(h, pay)
               ELSE RemoteRecv(h, pay)
        o1s(r) == IF reads /\ r.rd # RecvAgain /\ r.rd # <<>>
                  THEN sends ELSE {0}
        o2s == IF known /\ HasBit(event, POLL_OUT) THEN sends ELSE {0}
        gais(r) == IF /\ reads /\ r.rd # RecvAgain /\ r.rd # <<>>
                      /\ sock = local_sock[h]
                      /\ stage[h] \in {STAGE_INIT, STAGE_HELLO}
                   THEN {[gai |-> FALSE, conn |-> FALSE]}
                        \cup {[gai |-> TRUE, conn |-> c] : c \in conns}
                   ELSE {[gai |-> TRUE, conn |-> FALSE]}
    IN UNION {{[rd |-> r.rd, n |-> r.n, o1 |-> o1, o2 |-> o2,
                gai |-> g.gai, conn |-> g.conn] :
                  o1 \in o1s(r), o2 \in o2s, g \in gais(r)} : r \in rds}

ServerSocket == MaxSocks + 1
NoBatch == [fd \in {ListenFd} \cup FDs |-> NoReg]

\* ------------------------------------------------------------------ state
Tombstones == [i \in 1..TIMEOUTS_CLEAN_SIZE |-> None]

\* TCPRelay.__init__, with the handler fields at TCPRelayHandler.__init__'s
\* values.  The timeout queue starts empty, or as TIMEOUTS_CLEAN_SIZE earlier
\* connections that came and went since the last sweep left it: all
\* tombstones.
Init ==
    /\ is_local \in BOOLEAN
    /\ fd_to_handlers = [fd \in FDs |-> None]
    /\ \/ timeouts = <<>> /\ timeout_offset = 0
       \/ timeouts = Tombstones /\ timeout_offset = 0
    /\ handler_to_timeouts = [h \in Handlers |-> <<>>]
    /\ last_time = StartTime
    /\ stage = [h \in Handlers |-> STAGE_INIT]
    /\ local_sock = [h \in Handlers |-> None]
    /\ remote_sock = [h \in Handlers |-> None]
    /\ data_to_write_to_local = [h \in Handlers |-> <<>>]
    /\ data_to_write_to_remote = [h \in Handlers |-> <<>>]
    /\ upstream_status = [h \in Handlers |-> WAIT_STATUS_READING]
    /\ downstream_status = [h \in Handlers |-> WAIT_STATUS_INIT]
    /\ last_activity = [h \in Handlers |-> 0]
    /\ remote_address = [h \in Handlers |-> FALSE]
    /\ now = StartTime
    /\ nhandlers = 0
    /\ sock_fd = [s \in Socks |-> None]
    /\ sock_closes = [s \in Socks |-> 0]
    /\ poll_reg = [fd \in FDs |-> NoReg]
    /\ batch = NoBatch
    /\ phase = "idle"
    /\ sock_sent = [s \in Socks |-> <<>>]
    /\ sock_inc = [s \in Socks |-> FALSE]
    /\ up_stream = [h \in Handlers |-> <<>>]
    /\ down_stream = [h \in Handlers |-> <<>>]
    /\ up_read = [h \in Handlers |-> 0]
    /\ down_read = [h \in Handlers |-> 0]
    /\ destroyed = [h \in Handlers |-> FALSE]
    /\ last_sweep = NoSweep
    /\ connect_failed = [h \in Handlers |-> FALSE]
    /\ rejected = [h \in Handlers |-> FALSE]
    /\ closed = FALSE
    /\ listening = TRUE
    /\ served_closed = FALSE
    /\ stale_reused = FALSE

\* ---------------------------------------------------------------- actions
\* the event loop's clock moves while it waits in poll()
Advance ==
    /\ phase = "idle"
    /\ \E d \in ClockSteps :
          /\ now + d <= MaxTime
          /\ Commit([World EXCEPT !.now = @ + d])

\* poll() returns: the batch is drawn from the interest registered now (the
\* listener is always polled for POLL_IN); its events are handed to
\* _handle_events one by one, in any order, and any of them may be missing
Poll ==
    /\ phase = "idle"
    /\ Commit([World EXCEPT
                  !.batch = [fd \in {ListenFd} \cup FDs |->
                                IF fd = ListenFd
                                THEN [sock |-> ServerSocket, mask |-> POLL_IN]
                                ELSE poll_reg[fd]],
                  !.phase = "dispatch"])

\* _handle_events, one event of the listening socket: accept() returns a
\* connection (when the socket is open and the clients have one waiting), or
\* fails
Accept(waiting) ==
    /\ phase = "dispatch"
    /\ batch[ListenFd].sock # None
    /\ \/ /\ nhandlers < MaxHandlers
          /\ listening
          /\ waiting
          /\ Commit(handler_init([World EXCEPT !.batch[ListenFd] = NoReg]))
       \/ Commit([World EXCEPT !.batch[ListenFd] = NoReg])

\* _handle_events, one event (sock, fd, event) of another socket
Dispatch(sends, pay, conns) ==
    /\ phase = "dispatch"
    /\ \E fd \in FDs :
          /\ batch[fd].sock # None
          /\ \E event \in Events(batch[fd].mask) :
                LET sock == batch[fd].sock
                    h == fd_to_handlers[fd]
                    w == [World EXCEPT
                             !.batch[fd] = NoReg,
                             !.served_closed = @ \/ closed,
                             !.stale_reused =
                                 @ \/ (h # None /\ sock_closes[sock] > 0)]
                IN IF h = None
                   THEN Commit(w)
                   ELSE \E e \in Env(h, sock, event, sends, pay, conns) :
                           Commit(free(handle_event(w, h, sock, event, e)))

\* _handle_events after the last event of the batch
EndBatch ==
    /\ phase = "dispatch"
    /\ Commit([free(handle_events_end(World)) EXCEPT !.batch = NoBatch,
                                                     !.phase = "idle"])

\* poll() returns no event (it timed out): _handle_events with an empty batch
EmptyBatch ==
    /\ phase = "idle"
    /\ Commit(free(handle_events_end(World)))

\* _handle_events after the only event of a batch: a sweep that is due is a
\* step of its own (EndBatch), so that the state between the callback and the
\* sweep is a state of the model
single_event_end(w) ==
    IF w.now - w.last_time > TIMEOUT_PRECISION
    THEN [w EXCEPT !.phase = "dispatch", !.last_sweep = NoSweep]
    ELSE handle_events_end(w)

\* poll() returns one event, of the listening socket
AcceptBatch ==
    /\ phase = "idle"
    /\ nhandlers < MaxHandlers
    /\ listening
    /\ Commit(single_event_end(handler_init(World)))

\* poll() returns one event, of a handler's socket.  The socket is the one
\* registered for fd, the event is in its interest
EventBatch(sends, pay, conns) ==
    /\ phase = "idle"
    /\ \E fd \in FDs :
          /\ poll_reg[fd].sock # None
          /\ \E event \in Events(poll_reg[fd].mask) :
                LET sock == poll_reg[fd].sock
                    h == fd_to_handlers[fd]
                IN /\ h # None
                   /\ \E e \in Env(h, sock, event, sends, pay, conns) :
                         Commit(free(single_event_end(
                                    handle_event(
                                        [World EXCEPT
                                            !.served_closed = @ \/ closed,
                                            !.stale_reused =
                                                @ \/ sock_closes[sock] > 0],
                                        h, sock, event, e))))

\* TCPRelay.close is called between two batches
Close ==
    /\ phase = "idle"
    /\ Commit(close(World))

\* Many connections at a time, over a clock that moves; poll() returns at
\* most one event, send() takes all of the data or fails, and the peers send
\* no payload
Next ==
    \/ Advance
    \/ EmptyBatch
    \/ AcceptBatch
    \/ EventBatch({SEND_ERROR, 0}, 0, {FALSE})
    \/ EndBatch

Spec == Init /\ [][Next]_vars

\* One connection, within one tick of the clock; poll() returns batches of
\* any size, send() has every outcome, and there is payload both ways
InitPump == Init /\ timeouts = <<>>

NextPump ==
    \/ Poll
    \/ Accept(nhandlers = 0)
    \/ Dispatch(SendOutcomes, MaxPayload, BOOLEAN)
    \/ EndBatch

SpecPump == InitPump /\ [][NextPump]_vars

\* Many connections over a clock that moves, and a server that is closed at
\* some point; send() takes all of the data and connect() does not fail
NextClose ==
    \/ Advance
    \/ EmptyBatch
    \/ AcceptBatch
    \/ EventBatch({0}, 0, {FALSE})
    \/ EndBatch
    \/ Close

SpecClose == InitPump /\ [][NextClose]_vars

\* Many connections within one tick of the clock; poll() returns batches of
\* any size, in which a connection can be accepted after another was
\* destroyed; send() takes all of the data or fails, the peers send no
\* payload and connect() does not fail
NextStale ==
    \/ Poll
    \/ Accept(TRUE)
    \/ Dispatch({SEND_ERROR, 0}, 0, {FALSE})
    \/ EndBatch

SpecStale == InitPump /\ [][NextStale]_vars

\* ================================================================= claims
\* the interest registered with the poller for socket s
Interest(s) == poll_reg[sock_fd[s]].mask

Accepted == 1..nhandlers

\* C1: what send() accepted on a handler's remote socket is a prefix of the
\* stream the handler produced for upstream, in the order it was read
C1_UpstreamOrder ==
    \A h \in Accepted : IsPrefix(sock_sent[RemoteSockOf(h)], up_stream[h])

\* C2: what send() accepted on a handler's local socket is a prefix of the
\* stream the handler produced for the local side, in production order
C2_DownstreamOrder ==
    \A h \in Accepted : IsPrefix(sock_sent[LocalSockOf(h)], down_stream[h])

\* C3: once destroy(H) has run, no fd maps to H and handler_to_timeouts has
\* no entry for H, in every later state
C3_DestroyedUnindexed ==
    \A h \in Accepted :
        destroyed[h] =>
            /\ \A fd \in FDs : fd_to_handlers[fd] # h
            /\ handler_to_timeouts[h] = <<>>

\* C4: every socket a handler ever owned is closed at most once, and once
\* destroy has run on the handler each of them is closed exactly once and is
\* out of the poller and of the fd map, so that a further destroy finds
\* nothing to close or to remove
C4_CloseOnce ==
    \A s \in Socks :
        /\ sock_closes[s] <= 1
        /\ sock_fd[s] # None /\ destroyed[sock_owner(s)] =>
              /\ sock_closes[s] = 1
              /\ \A fd \in FDs : poll_reg[fd].sock # s
              /\ local_sock[sock_owner(s)] # s
              /\ remote_sock[sock_owner(s)] # s

\* C5: in stage STREAM, after an incomplete send to remote_sock and until a
\* send to it completes in full, local_sock is not polled for POLL_IN; and
\* the same for an incomplete send to local_sock and remote_sock's POLL_IN
C5_Backpressure ==
    \A h \in Accepted :
        local_sock[h] # None /\ remote_sock[h] # None =>
            /\ sock_inc[remote_sock[h]] =>
                  ~HasBit(Interest(local_sock[h]), POLL_IN)
            /\ sock_inc[local_sock[h]] =>
                  ~HasBit(Interest(remote_sock[h]), POLL_IN)

C5_Witness ==
    \E h \in Accepted :
        /\ stage[h] = STAGE_STREAM
        /\ local_sock[h] # None /\ remote_sock[h] # None
        /\ sock_inc[remote_sock[h]]
        /\ data_to_write_to_remote[h] # <<>>

\* C6: a handler's stage only moves along INIT, HELLO, REPLY, STREAM or
\* INIT, HELLO, UDP_ASSOC in the local role and along INIT, REPLY, STREAM in
\* the remote role: it never goes back, never leaves UDP_ASSOC, and the
\* remote role never enters HELLO or UDP_ASSOC
StageSteps ==
    IF is_local
    THEN {<<STAGE_INIT, STAGE_HELLO>>, <<STAGE_HELLO, STAGE_REPLY>>,
          <<STAGE_HELLO, STAGE_UDP_ASSOC>>, <<STAGE_REPLY, STAGE_STREAM>>}
    ELSE {<<STAGE_INIT, STAGE_REPLY>>, <<STAGE_REPLY, STAGE_STREAM>>}

C6_StageMonotone ==
    [][\A h \in Handlers :
          stage'[h] = stage[h] \/ <<stage[h], stage'[h]>> \in StageSteps]_vars

C6_Witness ==
    \E h \in Accepted : stage[h] = STAGE_STREAM /\ sock_sent[RemoteSockOf(h)] # <<>>

\* C7: every key of handler_to_timeouts points at a position of timeouts
\* that holds this very handler
C7_Tombstone ==
    \A h \in Handlers :
        handler_to_timeouts[h] # <<>> =>
            LET p == handler_to_timeouts[h][1]
            IN 0 <= p /\ p < Len(timeouts) /\ timeouts[p + 1] = h

\* a queue shorter than the number of accepted connections was compacted
C7_Witness ==
    /\ Len(timeouts) < nhandlers
    /\ \E h \in Handlers : handler_to_timeouts[h] # <<>>

\* C8: the last_activity values of the handlers in timeouts, from index 0
\* upward, never decrease
LivePositions == {i \in 1..Len(timeouts) : timeouts[i] # None}

C8_MonotoneActivity ==
    \A i, j \in LivePositions :
        i < j => last_activity[timeouts[i]] <= last_activity[timeouts[j]]

C8_Witness ==
    \E i, j \in LivePositions :
        /\ i < j
        /\ last_activity[timeouts[i]] < last_activity[timeouts[j]]
        /\ timeouts[j] < timeouts[i]

\* C9: every entry (fd, H) of the fd map is the descriptor of H's current
\* local_sock or remote_sock
C9_FdMapCoherent ==
    \A fd \in FDs :
        LET h == fd_to_handlers[fd]
        IN h # None =>
              \/ local_sock[h] # None /\ sock_fd[local_sock[h]] = fd
              \/ remote_sock[h] # None /\ sock_fd[remote_sock[h]] = fd

\* a live socket on the descriptor number of a closed one
C9_Witness ==
    \E s, t \in Socks :
        /\ sock_fd[s] # None /\ sock_closes[s] = 1
        /\ sock_fd[t] = sock_fd[s] /\ sock_closes[t] = 0
        /\ fd_to_handlers[sock_fd[t]] = sock_owner(t)

\* C10: a sweep destroys exactly the handlers with an entry in timeouts whose
\* now - last_activity >= timeout; their sockets are closed; the cursor is
\* at the first entry that is left, or at the end
C10_SweepExact ==
    last_sweep.ran =>
        /\ last_sweep.reaped = last_sweep.expired
        /\ \A h \in last_sweep.expired :
              /\ local_sock[h] = None /\ remote_sock[h] = None
              /\ \A s \in {LocalSockOf(h), RemoteSockOf(h)} :
                    sock_fd[s] # None => sock_closes[s] = 1
        /\ \A h \in last_sweep.fresh : handler_to_timeouts[h] # <<>>
        /\ timeout_offset <= Len(timeouts)
        /\ \A i \in 1..timeout_offset : timeouts[i] = None
        /\ timeout_offset < Len(timeouts) => timeouts[timeout_offset + 1] # None

\* a sweep that reaped one handler, kept another and left the cursor on it
C10_Witness ==
    /\ last_sweep.ran
    /\ last_sweep.expired # {}
    /\ last_sweep.fresh # {}
    /\ timeout_offset > 0

\* C11: the clean-up at the end of a sweep.  With pos the cursor when the
\* loop ends: if pos > TIMEOUTS_CLEAN_SIZE and pos is more than half the
\* length, exactly the prefix [0, pos) is dropped, every stored index goes
\* down by pos and stays >= 0, timeout_offset is 0, the handlers in timeouts
\* are the same in the same order, and C7 and C8 hold afterwards; otherwise
\* timeouts and the stored indices are as the loop left them and
\* timeout_offset is pos
IsHandler(x) == x # None

C11_Compaction ==
    [][last_sweep'.ran /\ timeouts # <<>> =>
          LET length == Len(timeouts)
              r == sweep_loop(World, timeout_offset, length)
              mid == r.w.timeouts
              midh == r.w.handler_to_timeouts
          IN IF r.pos > TIMEOUTS_CLEAN_SIZE /\ 2 * r.pos > length
             THEN /\ timeouts' = SubSeq(mid, r.pos + 1, length)
                  /\ \A k \in Handlers :
                        IF midh[k] = <<>>
                        THEN handler_to_timeouts'[k] = <<>>
                        ELSE /\ handler_to_timeouts'[k] = <<midh[k][1] - r.pos>>
                             /\ handler_to_timeouts'[k][1] >= 0
                  /\ timeout_offset' = 0
                  /\ SelectSeq(timeouts', IsHandler) = SelectSeq(mid, IsHandler)
                  /\ \A k \in Handlers :
                        handler_to_timeouts'[k] # <<>> =>
                            /\ handler_to_timeouts'[k][1] < Len(timeouts')
                            /\ timeouts'[handler_to_timeouts'[k][1] + 1] = k
                  /\ \A i, j \in 1..Len(timeouts') :
                        i < j /\ timeouts'[i] # None /\ timeouts'[j] # None =>
                            last_activity'[timeouts'[i]]
                                <= last_activity'[timeouts'[j]]
             ELSE /\ timeouts' = mid
                  /\ handler_to_timeouts' = midh
                  /\ timeout_offset' = r.pos]_vars

\* a sweep that reaped a handler and compacted the queue around a live one
C11_Witness ==
    /\ last_sweep.ran
    /\ last_sweep.reaped # {}
    /\ timeout_offset = 0
    /\ Len(timeouts) < nhandlers
    /\ \E h \in Handlers : handler_to_timeouts[h] = <<0>>

\* C12: no handler whose connect() failed with an error other than
\* EINPROGRESS is in stage REPLY with its remote socket in the fd map and in
\* the poller: the handler was destroyed in the callback that connected
C12_UnreachableDestroys ==
    \A h \in Accepted :
        connect_failed[h] /\ stage[h] = STAGE_REPLY =>
            /\ destroyed[h]
            /\ remote_sock[h] = None
            /\ \A fd \in FDs : fd_to_handlers[fd] # h
            /\ poll_reg[sock_fd[RemoteSockOf(h)]].sock # RemoteSockOf(h)

\* the first requests that are protocol errors for handler h: in the local
\* role at HELLO a command other than CONNECT and UDP_ASSOCIATE or a header
\* the parser rejects, in the remote role at INIT a rejected header
ProtocolErrors(h) ==
    IF is_local
    THEN IF stage[h] = STAGE_HELLO
         THEN {r \in Requests :
                  /\ Len(r) >= 2
                  /\ r[2] # CMD_UDP_ASSOCIATE
                  /\ r[2] # CMD_CONNECT \/ parse_header(Drop(r, 3)) = None}
         ELSE {}
    ELSE IF stage[h] = STAGE_INIT THEN {Encrypt(HeaderBad)} ELSE {}

\* C13: a handler whose first request was a protocol error is destroyed, and
\* no remote socket was ever created or mapped for it; and on_local_read of
\* such a request on a live handler destroys it without creating a socket,
\* sending anything to the client (which got at most the greeting reply, never
\* the success reply) or queueing anything for upstream
C13_ProtocolError ==
    /\ \A h \in Accepted :
           rejected[h] =>
               /\ destroyed[h]
               /\ local_sock[h] = None /\ remote_sock[h] = None
               /\ sock_fd[RemoteSockOf(h)] = None
               /\ \A fd \in FDs : fd_to_handlers[fd] # h
               /\ stage[h] = IF is_local THEN STAGE_HELLO ELSE STAGE_INIT
    /\ \A h \in Accepted :
           \A rd \in ProtocolErrors(h), o \in SendOutcomes,
              gai \in BOOLEAN, conn \in BOOLEAN :
               ~destroyed[h] =>
                   LET r == on_local_read(World, h, rd, o, gai, conn)
                       ls == LocalSockOf(h)
                   IN /\ r.destroyed[h] /\ r.rejected[h]
                      /\ r.sock_fd[RemoteSockOf(h)] = None
                      /\ r.remote_sock[h] = None
                      /\ \A fd \in FDs : r.fd_to_handlers[fd] # h
                      /\ \A fd \in FDs : r.poll_reg[fd].sock # ls
                      /\ r.sock_sent[ls] = sock_sent[ls]
                      /\ IsPrefix(sock_sent[ls],
                                  IF is_local THEN GreetingReply ELSE <<>>)
                      /\ r.down_stream = down_stream
                      /\ r.data_to_write_to_remote[h] = <<>>
                      /\ r.up_stream[h] = <<>>

\* a handler was destroyed for a protocol error
C13_Witness ==
    \E h \in Accepted :
        /\ rejected[h] /\ destroyed[h]
        /\ sock_fd[RemoteSockOf(h)] = None
        /\ up_stream[h] = <<>>

\* C14: a step that ends a batch runs the sweeper and sets last_time to the
\* clock when the clock is at least TIMEOUT_PRECISION past last_time, and
\* otherwise runs no sweep and leaves last_time alone
C14_SweepTrigger ==
    [][phase' = "idle" /\ now' = now =>
          IF now - last_time >= TIMEOUT_PRECISION
          THEN last_sweep'.ran /\ last_time' = now
          ELSE ~last_sweep'.ran /\ last_time' = last_time]_vars

\* C15: the step in which the closed flag is set closes the listening socket
\* and nothing else, and leaves the fd map, the timeout queue, its index and
\* cursor and every handler's stage, sockets, statuses and queues as they
\* were; once closed no connection is accepted, and a sweep still destroys
\* exactly the handlers that are idle for timeout
C15_CloseFrame ==
    /\ [][closed' # closed =>
             /\ closed' /\ ~listening'
             /\ UNCHANGED <<fd_to_handlers, timeouts, handler_to_timeouts,
                            timeout_offset, stage, local_sock, remote_sock,
                            upstream_status, downstream_status,
                            data_to_write_to_local, data_to_write_to_remote,
                            sock_fd, sock_closes, poll_reg, last_activity,
                            last_time, nhandlers, destroyed>>]_vars
    /\ [][closed => closed' /\ ~listening' /\ nhandlers' = nhandlers]_vars
    /\ [](closed /\ last_sweep.ran =>
             /\ last_sweep.reaped = last_sweep.expired
             /\ \A h \in last_sweep.expired :
                   local_sock[h] = None /\ remote_sock[h] = None
             /\ \A h \in last_sweep.fresh : handler_to_timeouts[h] # <<>>)

\* after close a handler processed an event, and the sweep at the end of
\* that batch or of a later one reaped a handler
C15_Witness ==
    /\ closed /\ served_closed
    /\ phase = "idle"
    /\ last_sweep.ran /\ last_sweep.reaped # {}

\* the interest the statuses of handler h call for on its local socket and
\* on its remote socket
LocalInterest(h) ==
    POLL_ERR
    + (IF HasBit(downstream_status[h], WAIT_STATUS_WRITING)
       THEN POLL_OUT ELSE 0)
    + (IF HasBit(upstream_status[h], WAIT_STATUS_READING)
       THEN POLL_IN ELSE 0)

RemoteInterest(h) ==
    POLL_ERR
    + (IF HasBit(upstream_status[h], WAIT_STATUS_WRITING)
       THEN POLL_OUT ELSE 0)
    + (IF HasBit(downstream_status[h], WAIT_STATUS_READING)
       THEN POLL_IN ELSE 0)

\* C16: between callbacks, each socket of a handler that is not destroyed is
\* registered with the poller for POLL_ERR, for POLL_OUT iff the status of
\* the direction it writes has the WRITING bit, and for POLL_IN iff the
\* status of the direction it reads has the READING bit
C16_InterestBitmap ==
    \A h \in Accepted :
        ~destroyed[h] =>
            /\ local_sock[h] # None =>
                   /\ poll_reg[sock_fd[local_sock[h]]].sock = local_sock[h]
                   /\ Interest(local_sock[h]) = LocalInterest(h)
            /\ remote_sock[h] # None =>
                   /\ poll_reg[sock_fd[remote_sock[h]]].sock = remote_sock[h]
                   /\ Interest(remote_sock[h]) = RemoteInterest(h)

\* a handler that has just connected upstream: its remote socket is polled
\* for reading and writing, its local socket for reading
C16_Witness ==
    \E h \in Accepted :
        /\ ~destroyed[h]
        /\ stage[h] = STAGE_REPLY
        /\ remote_sock[h] # None
        /\ Interest(remote_sock[h]) = POLL_IN + POLL_OUT + POLL_ERR
        /\ Interest(local_sock[h]) = POLL_IN + POLL_ERR

\* the data write_to_sock is tried on
WriteData == {<<>>, <<7>>, <<7, 8>>}

\* C17: write_to_sock(data, sock) on a handler that is not destroyed, for
\* sock one of its sockets or a released one and every outcome of send().
\* Empty data or no socket: nothing changes.  send() accepts k < len(data)
\* bytes: data[k:] is appended to the queue of sock and the status of its
\* direction is WRITING.  EAGAIN/EINPROGRESS: all of data is appended, the
\* status is WRITING.  All of data sent: nothing is appended, the status is
\* READING.  Another error: the handler is destroyed and neither queue
\* grows.  The status and the queue of the other direction never change.
C17_WriteToSock ==
    \A h \in Accepted :
        ~destroyed[h] =>
            \A sock \in {None, local_sock[h], remote_sock[h]},
               data \in WriteData, o \in SendOutcomes :
                LET r == write_to_sock(World, h, data, sock, o)
                    l == Len(data)
                    k == IF o > l THEN 0 ELSE l - o
                    isl == sock = local_sock[h]
                    queue(w) == IF isl THEN w.data_to_write_to_local[h]
                                ELSE w.data_to_write_to_remote[h]
                    status(w) == IF isl THEN w.downstream_status[h]
                                 ELSE w.upstream_status[h]
                    other(w) == IF isl
                                THEN <<w.data_to_write_to_remote[h],
                                       w.upstream_status[h]>>
                                ELSE <<w.data_to_write_to_local[h],
                                       w.downstream_status[h]>>
                IN IF data = <<>> \/ sock = None THEN r = World
                   ELSE /\ other(r) = other(World)
                        /\ IF o = SEND_ERROR
                           THEN /\ r.destroyed[h]
                                /\ queue(r) = queue(World)
                                /\ r.sock_sent = sock_sent
                           ELSE IF o = SEND_AGAIN
                           THEN /\ ~r.destroyed[h]
                                /\ queue(r) = queue(World) \o data
                                /\ status(r) = WAIT_STATUS_WRITING
                                /\ r.sock_sent = sock_sent
                           ELSE IF k < l
                           THEN /\ ~r.destroyed[h]
                                /\ queue(r) = queue(World) \o Drop(data, k)
                                /\ status(r) = WAIT_STATUS_WRITING
                                /\ r.sock_sent[sock] =
                                       sock_sent[sock] \o SubSeq(data, 1, k)
                           ELSE /\ ~r.destroyed[h]
                                /\ queue(r) = queue(World)
                                /\ status(r) = WAIT_STATUS_READING
                                /\ r.sock_sent[sock] = sock_sent[sock] \o data

\* a send to the client was partial: what it left is queued, the downstream
\* status is WRITING
C17_Witness ==
    \E h \in Accepted :
        /\ ~destroyed[h]
        /\ sock_sent[LocalSockOf(h)] # <<>>
        /\ data_to_write_to_local[h] # <<>>
        /\ downstream_status[h] = WAIT_STATUS_WRITING
        /\ sock_sent[LocalSockOf(h)] \o data_to_write_to_local[h]
               = down_stream[h]

\* what a handler in stage REPLY has read from its client for upstream, as
\* it goes upstream: in the local role the encrypted address header and
\* payload, in the remote role the payload that followed the header
ReadForUpstream(h) ==
    IF is_local THEN Encrypt(HeaderV4 \o UpChunk(0, up_read[h]))
    ELSE UpChunk(0, up_read[h])

\* C18: while a handler with a remote socket is in stage REPLY, send() has
\* accepted nothing on that socket and pending_to_remote is all it read for
\* upstream, in the order read, the address header first in the local role;
\* on_remote_write takes it to STREAM and, unless send() fails, sends the
\* concatenation of the queue and leaves in the queue what send() did not
\* accept; and in the step that takes it from REPLY to STREAM what was sent
\* followed by what stays queued is the queue as it was
C18_FlushOnConnect ==
    /\ [](\A h \in Accepted :
             stage[h] = STAGE_REPLY /\ remote_sock[h] # None =>
                 /\ sock_sent[remote_sock[h]] = <<>>
                 /\ data_to_write_to_remote[h] = ReadForUpstream(h)
                 /\ \A o \in SendOutcomes \ {SEND_ERROR} :
                       LET r == on_remote_write(World, h, o)
                       IN /\ r.stage[h] = STAGE_STREAM
                          /\ r.sock_sent[remote_sock[h]]
                                \o r.data_to_write_to_remote[h]
                                = data_to_write_to_remote[h])
    /\ [][\A h \in Accepted :
             /\ stage[h] = STAGE_REPLY /\ stage'[h] = STAGE_STREAM
             /\ remote_sock'[h] # None
             => sock_sent'[remote_sock[h]] \o data_to_write_to_remote'[h]
                   = data_to_write_to_remote[h]]_vars

\* the flush was partial: the handler is in STREAM, the remote socket took
\* the head of what was queued and the rest is still queued
C18_Witness ==
    \E h \in Accepted :
        /\ stage[h] = STAGE_STREAM
        /\ remote_sock[h] # None
        /\ sock_sent[remote_sock[h]] # <<>>
        /\ data_to_write_to_remote[h] # <<>>
        /\ sock_sent[remote_sock[h]] \o data_to_write_to_remote[h]
               = ReadForUpstream(h)

\* C19: between callbacks, each handler that was accepted and is not
\* destroyed is at exactly one position of timeouts, the one that
\* handler_to_timeouts gives for it, and this position is not before
\* timeout_offset; update_activity on it changes nothing when the clock is
\* less than TIMEOUT_PRECISION past its last_activity, and otherwise turns
\* its position into a tombstone and appends it once, at the end
C19_TrackedOnce ==
    LET live == LivePositions
    IN \A h \in Accepted :
           ~destroyed[h] =>
               /\ handler_to_timeouts[h] # <<>>
               /\ LET p == handler_to_timeouts[h][1]
                      r == update_activity(World, h)
                  IN /\ {i \in live : timeouts[i] = h} = {p + 1}
                     /\ p >= timeout_offset
                     /\ IF now - last_activity[h] < TIMEOUT_PRECISION
                        THEN r = World
                        ELSE /\ r.timeouts =
                                   Append([timeouts EXCEPT ![p + 1] = None], h)
                             /\ r.handler_to_timeouts =
                                   [handler_to_timeouts EXCEPT
                                       ![h] = <<Len(timeouts)>>]
                             /\ r.last_activity =
                                   [last_activity EXCEPT ![h] = now]
                             /\ r.timeout_offset = timeout_offset

\* two live handlers, the one accepted first now behind the other in the
\* queue: update_activity moved it
C19_Witness ==
    \E h, k \in Accepted :
        /\ h < k
        /\ ~destroyed[h] /\ ~destroyed[k]
        /\ handler_to_timeouts[h] # <<>> /\ handler_to_timeouts[k] # <<>>
        /\ handler_to_timeouts[h][1] > handler_to_timeouts[k][1]
        /\ timeout_offset <= handler_to_timeouts[k][1]

\* C20: between callbacks, a handler that is not destroyed and has bytes in
\* pending_to_local has the WRITING bit in downstream_status, and one that
\* has bytes in pending_to_remote has the WRITING bit in upstream_status
C20_NoStrandedData ==
    \A h \in Accepted :
        ~destroyed[h] =>
            /\ data_to_write_to_local[h] # <<>> =>
                   HasBit(downstream_status[h], WAIT_STATUS_WRITING)
            /\ data_to_write_to_remote[h] # <<>> =>
                   HasBit(upstream_status[h], WAIT_STATUS_WRITING)

\* the state of the handlers, of the server's indices, of the sockets and of
\* the poller
HandlerState ==
    <<fd_to_handlers, timeouts, timeout_offset, handler_to_timeouts,
      last_time, stage, local_sock, remote_sock, data_to_write_to_local,
      data_to_write_to_remote, upstream_status, downstream_status,
      last_activity, remote_address, nhandlers, sock_fd, sock_closes,
      poll_reg, sock_sent, up_stream, down_stream, destroyed, closed>>

\* the callbacks of one event on a socket of handler h, one after the
\* other: readable, then writable, then error
ReadWriteError(h, sock, event, e) ==
    LET isr == sock = remote_sock[h]
        rd == IF ~HasBit(event, POLL_IN) THEN World
              ELSE IF isr
              THEN on_remote_read([World EXCEPT !.down_read[h] = @ + e.n],
                                  h, e.rd, e.o1)
              ELSE on_local_read([World EXCEPT !.up_read[h] = @ + e.n],
                                 h, e.rd, e.o1, e.gai, e.conn)
        wr == IF ~HasBit(event, POLL_OUT) THEN rd
              ELSE IF isr THEN on_remote_write(rd, h, e.o2)
              ELSE on_local_write(rd, h, e.o2)
    IN IF ~HasBit(event, POLL_ERR) THEN wr
       ELSE IF isr THEN on_remote_error(wr, h)
       ELSE on_local_error(wr, h)

\* C21: a step that dispatches an event of the batch whose socket has been
\* closed changes nothing of any handler, of the fd map, of the timeout
\* queue and its index, of the sockets and of the poller, whether the
\* event's descriptor is in the fd map again or not; and handle_event on a
\* socket of the handler runs the readable, the writable and the error
\* callback in this order
C21_StaleDropped ==
    /\ [][\A fd \in FDs :
             /\ phase = "dispatch" /\ phase' = "dispatch"
             /\ batch[fd].sock # None
             /\ sock_closes[batch[fd].sock] > 0
             /\ batch'[fd] = NoReg
             => UNCHANGED HandlerState]_vars
    /\ [](\A fd \in FDs :
             LET sock == batch[fd].sock
                 h == fd_to_handlers[fd]
             IN /\ phase = "dispatch"
                /\ sock # None
                /\ h # None
                /\ sock \in {local_sock[h], remote_sock[h]}
                => \A event \in Events(batch[fd].mask) :
                      \A e \in Env(h, sock, event, {SEND_ERROR, 0}, 0,
                                   {FALSE}) :
                          handle_event(World, h, sock, event, e)
                              = ReadWriteError(h, sock, event, e))

\* an event that carried a closed socket went to the handler that got the
\* socket's descriptor later in the same batch
C21_Witness ==
    /\ stale_reused
    /\ phase = "dispatch"
    /\ \E s \in Socks :
          /\ sock_closes[s] > 0
          /\ batch[sock_fd[s]] = NoReg
          /\ fd_to_handlers[sock_fd[s]] # None

====
